---- MODULE Spec2Model ----
(***************************************************************************)
(* A model of the IMP toolchain front end and its run-time support:        *)
(*   - the recursive-descent parser (parser.cpp),                          *)
(*   - the bytecode container's typed read (program.h),                    *)
(*   - the host primitives (runtime.cpp).                                  *)
(* The parser's functions are functions of the token stream and of the     *)
(* lexer's position; they are written as operators that return a result    *)
(* record: the position the lexer is left at and the tree built, or the    *)
(* exception thrown, or the abort of a failed precondition.                *)
(***************************************************************************)
EXTENDS Integers, Sequences, FiniteSets, TLC

VARIABLES
  source,    \* the expression the token stream was lexed from, when it is one
  tokens,    \* the token stream of the lexer, ended by one END token
  pos,       \* the lexer's position: tokens[pos] is the current token
  body,      \* ParseModule's local vector of top-level statements
  status,    \* "running", "done" (Module returned), "syntax" (ParserError), "trap" (abort)
  err,       \* the ParserError thrown: location and expectation
  result,    \* what a direct call of ParseExpr returned
  code,      \* Program::code_
  pc,        \* the cursors handed to Program::Read, one per reader
  rd,        \* what the last Program::Read did
  stack,     \* the interpreter's operand stack
  out,       \* what was written to standard output
  inp,       \* what is left on standard input
  called     \* the name of the last runtime primitive called

vars == <<source, tokens, pos, body, status, err, result, code, pc, rd, stack, out, inp, called>>
parserVars == <<source, tokens, pos, body, status, err, result>>
parserVarsButStatus == <<source, tokens, pos, body, err, result>>
programVars == <<code, pc, rd>>
runtimeVars == <<stack, out, inp, called>>

None == [node |-> "none"]
NoSource == [kind |-> "none"]
NoResult == [entry |-> "none"]

(***************************************************************************)
(* Tokens.  A token has a kind and, for IDENT, STRING and INT, a payload.  *)
(* Its location is its index in the stream.                                *)
(***************************************************************************)
T(k) == [kind |-> k, val |-> ""]
IdentTok(n) == [kind |-> "IDENT", val |-> n]
StringTok(s) == [kind |-> "STRING", val |-> s]
IntTok(v) == [kind |-> "INT", val |-> v]
End == T("END")

Tok(p) == tokens[p]

\* Lexer::Next: the lexer moves to the next token; at the end of the stream
\* the current token stays the END token.
LexNext(p) == IF Tok(p).kind = "END" THEN p ELSE p + 1

(***************************************************************************)
(* The AST nodes.                                                          *)
(***************************************************************************)
RefExpr(n) == [node |-> "RefExpr", name |-> n]
IntExpr(v) == [node |-> "IntExpr", value |-> v]
CallExpr(c, a) == [node |-> "CallExpr", callee |-> c, args |-> a]
BinaryExpr(k, l, r) == [node |-> "BinaryExpr", kind |-> k, lhs |-> l, rhs |-> r]
ExprStmt(e) == [node |-> "ExprStmt", expr |-> e]
ReturnStmt(e) == [node |-> "ReturnStmt", expr |-> e]
WhileStmt(c, s) == [node |-> "WhileStmt", cond |-> c, stmt |-> s]
IfStmt(c, s, e) == [node |-> "IfStmt", cond |-> c, stmt |-> s, elseStmt |-> e]
LetStmt(d, e) == [node |-> "LetStmt", varDec |-> d, varVal |-> e]
BlockStmt(b) == [node |-> "BlockStmt", body |-> b]
ProtoDecl(n, a, t, p) ==
  [node |-> "ProtoDecl", name |-> n, args |-> a, type |-> t, primitive |-> p]
FuncDecl(n, a, t, b) ==
  [node |-> "FuncDecl", name |-> n, args |-> a, type |-> t, body |-> b]
nullptr == [node |-> "nullptr"]

(***************************************************************************)
(* What a parsing function does: it returns with the lexer at pos and a    *)
(* value; or it throws ParserError(loc, "unexpected <tk>, expecting        *)
(* <expected>"); or a precondition of a token accessor fails and the       *)
(* process aborts.                                                         *)
(***************************************************************************)
Ok(p, a) == [st |-> "ok", pos |-> p, ast |-> a]
Error(loc, exp) == [st |-> "syntax", pos |-> loc, ast |-> [loc |-> loc, expected |-> exp]]
Trap(p) == [st |-> "trap", pos |-> p, ast |-> None]

\* Parser::Check: the current token must be of the kind; it is returned.
Check(kind, p) ==
  IF kind # Tok(p).kind THEN Error(p, kind) ELSE Ok(p, Tok(p))

\* Parser::Expect: the lexer advances, then Check.
Expect(kind, p) == Check(kind, LexNext(p))

\* Token::GetIdent is valid on an IDENT token only.
IsIdent(tk) == tk.kind = "IDENT"

(***************************************************************************)
(* The parsing functions call one another, and themselves, through Invoke: *)
(* Invoke(f, p, acc) is the call f(p), or f(p, acc) for the operator of a  *)
(* loop, whose parameters are the lexer position at the loop's head and    *)
(* the loop's accumulator.                                                 *)
(***************************************************************************)
RECURSIVE Invoke(_, _, _)


\* ParseTermExpr with the identifier left unconsumed.
ParseTermExpr_stay(p) ==
  CASE Tok(p).kind = "IDENT" -> Ok(p, RefExpr(Tok(p).val))
    [] Tok(p).kind = "INT" -> Ok(LexNext(p), IntExpr(Tok(p).val))
    [] OTHER -> Error(p, "term")

ParseTermExpr(p) ==
  CASE Tok(p).kind = "IDENT" -> Ok(LexNext(p), RefExpr(Tok(p).val))
    [] Tok(p).kind = "INT" -> Ok(LexNext(p), IntExpr(Tok(p).val))
    [] OTHER -> Error(p, "term")

\* The inner loop of ParseCallExpr; p is the LPAREN or the COMMA the loop's
\* head steps over.
ArgLoop(p, args) ==
  LET q == LexNext(p) IN
  IF Tok(q).kind = "RPAREN" THEN Ok(q, args)
  ELSE LET e == Invoke("ParseExpr", q, <<>>) IN
       IF e.st # "ok" THEN e
       ELSE IF Tok(e.pos).kind # "COMMA" THEN Ok(e.pos, Append(args, e.ast))
       ELSE Invoke("ArgLoop", e.pos, Append(args, e.ast))

\* CallLoop with the loop left after the first argument list.
CallLoop_once(p, callee) ==
  IF Tok(p).kind = "LPAREN" THEN
    LET a == Invoke("ArgLoop", p, <<>>) IN
    IF a.st # "ok" THEN a
    ELSE LET c == Check("RPAREN", a.pos) IN
         IF c.st # "ok" THEN c
         ELSE Ok(LexNext(a.pos), CallExpr(callee, a.ast))
  ELSE Ok(p, callee)

\* The outer loop of ParseCallExpr.
CallLoop(p, callee) ==
  IF Tok(p).kind = "LPAREN" THEN
    LET a == Invoke("ArgLoop", p, <<>>) IN
    IF a.st # "ok" THEN a
    ELSE LET c == Check("RPAREN", a.pos) IN
         IF c.st # "ok" THEN c
         ELSE Invoke("CallLoop", LexNext(a.pos), CallExpr(callee, a.ast))
  ELSE Ok(p, callee)

ParseCallExpr(p) ==
  LET t == Invoke("ParseTermExpr", p, <<>>) IN
  IF t.st # "ok" THEN t ELSE Invoke("CallLoop", t.pos, t.ast)

\* MulLoop with the right operand parsed one level too high.
MulLoop_loose(p, term) ==
  IF Tok(p).kind = "MUL" THEN
    LET rhs == Invoke("ParseAddSubExpr", LexNext(p), <<>>) IN
    IF rhs.st # "ok" THEN rhs
    ELSE Invoke("MulLoop", rhs.pos, BinaryExpr("MUL", term, rhs.ast))
  ELSE Ok(p, term)

MulLoop(p, term) ==
  IF Tok(p).kind = "MUL" THEN
    LET rhs == Invoke("ParseCallExpr", LexNext(p), <<>>) IN
    IF rhs.st # "ok" THEN rhs
    ELSE Invoke("MulLoop", rhs.pos, BinaryExpr("MUL", term, rhs.ast))
  ELSE Ok(p, term)

ParseMulExpr(p) ==
  LET t == Invoke("ParseCallExpr", p, <<>>) IN
  IF t.st # "ok" THEN t ELSE Invoke("MulLoop", t.pos, t.ast)

\* AddSubLoop with isAddition ignored.
AddSubLoop_alwaysAdd(p, term) ==
  IF Tok(p).kind = "PLUS" \/ Tok(p).kind = "SUB" THEN
    LET rhs == Invoke("ParseMulExpr", LexNext(p), <<>>)
    IN IF rhs.st # "ok" THEN rhs
       ELSE Invoke("AddSubLoop", rhs.pos, BinaryExpr("ADD", term, rhs.ast))
  ELSE Ok(p, term)

AddSubLoop(p, term) ==
  IF Tok(p).kind = "PLUS" \/ Tok(p).kind = "SUB" THEN
    LET isAddition == Tok(p).kind = "PLUS"
        rhs == Invoke("ParseMulExpr", LexNext(p), <<>>)
    IN IF rhs.st # "ok" THEN rhs
       ELSE IF isAddition
            THEN Invoke("AddSubLoop", rhs.pos, BinaryExpr("ADD", term, rhs.ast))
            ELSE Invoke("AddSubLoop", rhs.pos, BinaryExpr("SUB", term, rhs.ast))
  ELSE Ok(p, term)

ParseAddSubExpr(p) ==
  LET t == Invoke("ParseMulExpr", p, <<>>) IN
  IF t.st # "ok" THEN t ELSE Invoke("AddSubLoop", t.pos, t.ast)

EqualityLoop(p, term) ==
  IF Tok(p).kind = "EQUALS" THEN
    LET rhs == Invoke("ParseAddSubExpr", LexNext(p), <<>>) IN
    IF rhs.st # "ok" THEN rhs
    ELSE Invoke("EqualityLoop", rhs.pos, BinaryExpr("EQUALS", term, rhs.ast))
  ELSE Ok(p, term)

ParseEqualityExpr(p) ==
  LET t == Invoke("ParseAddSubExpr", p, <<>>) IN
  IF t.st # "ok" THEN t ELSE Invoke("EqualityLoop", t.pos, t.ast)

\* The entry point of every expression context.
ParseExpr(p) == Invoke("ParseEqualityExpr", p, <<>>)

(***************************************************************************)
(* Statements.                                                             *)
(***************************************************************************)

ParseReturnStmt(p) ==
  LET c == Check("RETURN", p) IN
  IF c.st # "ok" THEN c
  ELSE LET e == Invoke("ParseExpr", LexNext(p), <<>>) IN
       IF e.st # "ok" THEN e
       ELSE LET s == Check("SEMI", e.pos) IN
            IF s.st # "ok" THEN s
            ELSE Ok(LexNext(e.pos), ReturnStmt(e.ast))

\* ParseLetStmt reads the variable's name out of the current token, which
\* Check has just found to be the LET keyword: Token::GetIdent's precondition
\* fails.  The lines after it bind `arg`, a name the function does not
\* declare; the model binds the name read at the head.
ParseLetStmt(p) ==
  LET c == Check("LET", p) IN
  IF c.st # "ok" THEN c
  ELSE IF ~IsIdent(Tok(p)) THEN Trap(p)
  ELSE LET name == Tok(p).val
           t == Expect("IDENT", p)
       IN IF t.st # "ok" THEN t
          ELSE LET varDec == <<name, t.ast.val>>
                   q == Expect("EQUAL", t.pos)
               IN IF q.st # "ok" THEN q
                  ELSE LET varVal == Invoke("ParseExpr", LexNext(q.pos), <<>>) IN
                       IF varVal.st # "ok" THEN varVal
                       ELSE Ok(varVal.pos, LetStmt(varDec, varVal.ast))

BlockLoop(p, stmts) ==
  IF Tok(p).kind # "RBRACE" THEN
    LET s == Invoke("ParseStmt", p, <<>>) IN
    IF s.st # "ok" THEN s ELSE Invoke("BlockLoop", s.pos, Append(stmts, s.ast))
  ELSE LET c == Check("RBRACE", p) IN
       IF c.st # "ok" THEN c ELSE Ok(LexNext(p), BlockStmt(stmts))

ParseBlockStmt(p) ==
  LET c == Check("LBRACE", p) IN
  IF c.st # "ok" THEN c ELSE Invoke("BlockLoop", LexNext(p), <<>>)

ParseWhileStmt(p) ==
  LET c == Check("WHILE", p) IN
  IF c.st # "ok" THEN c
  ELSE LET l == Expect("LPAREN", p) IN
       IF l.st # "ok" THEN l
       ELSE LET cond == Invoke("ParseExpr", LexNext(l.pos), <<>>) IN
            IF cond.st # "ok" THEN cond
            ELSE LET r == Check("RPAREN", cond.pos) IN
                 IF r.st # "ok" THEN r
                 ELSE LET stmt == Invoke("ParseStmt", LexNext(cond.pos), <<>>) IN
                      IF stmt.st # "ok" THEN stmt
                      ELSE Ok(stmt.pos, WhileStmt(cond.ast, stmt.ast))

ParseIfStmt(p) ==
  LET c == Check("IF", p) IN
  IF c.st # "ok" THEN c
  ELSE LET l == Expect("LPAREN", p) IN
       IF l.st # "ok" THEN l
       ELSE LET cond == Invoke("ParseExpr", LexNext(l.pos), <<>>) IN
            IF cond.st # "ok" THEN cond
            ELSE LET r == Check("RPAREN", cond.pos) IN
                 IF r.st # "ok" THEN r
                 ELSE LET ifStmt == Invoke("ParseStmt", LexNext(cond.pos), <<>>) IN
                      IF ifStmt.st # "ok" THEN ifStmt
                      ELSE IF Tok(ifStmt.pos).kind = "ELSE"
                      THEN LET elseStmt == Invoke("ParseStmt", LexNext(ifStmt.pos), <<>>) IN
                           IF elseStmt.st # "ok" THEN elseStmt
                           ELSE Ok(elseStmt.pos,
                                   IfStmt(cond.ast, ifStmt.ast, elseStmt.ast))
                      ELSE Ok(ifStmt.pos, IfStmt(cond.ast, ifStmt.ast, nullptr))

\* The default case of ParseStmt: an expression statement.
ParseExprStmt(p) ==
  LET e == Invoke("ParseExpr", p, <<>>) IN
  IF e.st # "ok" THEN e
  ELSE LET s == Check("SEMI", e.pos) IN
       IF s.st # "ok" THEN s ELSE Ok(LexNext(e.pos), ExprStmt(e.ast))

ParseStmt(p) ==
  CASE Tok(p).kind = "RETURN" -> Invoke("ParseReturnStmt", p, <<>>)
    [] Tok(p).kind = "WHILE" -> Invoke("ParseWhileStmt", p, <<>>)
    [] Tok(p).kind = "IF" -> Invoke("ParseIfStmt", p, <<>>)
    [] Tok(p).kind = "LET" -> Invoke("ParseLetStmt", p, <<>>)
    [] Tok(p).kind = "LBRACE" -> Invoke("ParseBlockStmt", p, <<>>)
    [] OTHER -> Invoke("ParseExprStmt", p, <<>>)

Invoke(f, p, acc) ==
  CASE f = "ParseTermExpr" -> ParseTermExpr(p)
    [] f = "ArgLoop" -> ArgLoop(p, acc)
    [] f = "CallLoop" -> CallLoop(p, acc)
    [] f = "ParseCallExpr" -> ParseCallExpr(p)
    [] f = "MulLoop" -> MulLoop(p, acc)
    [] f = "ParseMulExpr" -> ParseMulExpr(p)
    [] f = "AddSubLoop" -> AddSubLoop(p, acc)
    [] f = "ParseAddSubExpr" -> ParseAddSubExpr(p)
    [] f = "EqualityLoop" -> EqualityLoop(p, acc)
    [] f = "ParseEqualityExpr" -> ParseEqualityExpr(p)
    [] f = "ParseExpr" -> ParseExpr(p)
    [] f = "ParseReturnStmt" -> ParseReturnStmt(p)
    [] f = "ParseLetStmt" -> ParseLetStmt(p)
    [] f = "BlockLoop" -> BlockLoop(p, acc)
    [] f = "ParseBlockStmt" -> ParseBlockStmt(p)
    [] f = "ParseWhileStmt" -> ParseWhileStmt(p)
    [] f = "ParseIfStmt" -> ParseIfStmt(p)
    [] f = "ParseExprStmt" -> ParseExprStmt(p)
    [] f = "ParseStmt" -> ParseStmt(p)

(***************************************************************************)
(* Declarations: the FUNC branch of ParseModule's loop.                    *)
(***************************************************************************)
RECURSIVE ParamLoop(_, _)

\* The parameter loop; p is the LPAREN or the COMMA the loop's head steps
\* over.  The parameter's name is read out of the current token unchecked.
ParamLoop(p, args) ==
  LET q == LexNext(p) IN
  IF Tok(q).kind = "RPAREN" THEN Ok(q, args)
  ELSE IF ~IsIdent(Tok(q)) THEN Trap(q)
  ELSE LET arg == Tok(q).val
           c == Expect("COLON", q)
       IN IF c.st # "ok" THEN c
          ELSE LET t == Expect("IDENT", c.pos) IN
               IF t.st # "ok" THEN t
               ELSE LET args2 == Append(args, <<arg, t.ast.val>>)
                        n == LexNext(t.pos)
                    IN IF Tok(n).kind # "COMMA" THEN Ok(n, args2)
                       ELSE ParamLoop(n, args2)

\* ParseDeclTail with the lexer left on the string of a primitive binding.
ParseDeclTail_onString(name, args, type, q) ==
  IF Tok(q).kind = "EQUAL" THEN
    LET s == Expect("STRING", q) IN
    IF s.st # "ok" THEN s
    ELSE Ok(s.pos, ProtoDecl(name, args, type, s.ast.val))
  ELSE
    LET block == Invoke("ParseBlockStmt", q, <<>>) IN
    IF block.st # "ok" THEN block
    ELSE Ok(block.pos, FuncDecl(name, args, type, block.ast))

\* What follows the return type: a primitive binding or a body.
ParseDeclTail(name, args, type, q) ==
  IF Tok(q).kind = "EQUAL" THEN
    LET s == Expect("STRING", q) IN
    IF s.st # "ok" THEN s
    ELSE Ok(LexNext(s.pos), ProtoDecl(name, args, type, s.ast.val))
  ELSE
    LET block == Invoke("ParseBlockStmt", q, <<>>) IN
    IF block.st # "ok" THEN block
    ELSE Ok(block.pos, FuncDecl(name, args, type, block.ast))

\* p is the FUNC token.
ParseFuncDecl(p) ==
  LET n == Expect("IDENT", p) IN
  IF n.st # "ok" THEN n
  ELSE LET l == Expect("LPAREN", n.pos) IN
       IF l.st # "ok" THEN l
       ELSE LET a == ParamLoop(l.pos, <<>>) IN
            IF a.st # "ok" THEN a
            ELSE LET r == Check("RPAREN", a.pos) IN
                 IF r.st # "ok" THEN r
                 ELSE LET c == Expect("COLON", a.pos) IN
                      IF c.st # "ok" THEN c
                      ELSE LET t == Expect("IDENT", c.pos) IN
                           IF t.st # "ok" THEN t
                           ELSE ParseDeclTail(n.ast.val, a.ast, t.ast.val,
                                              LexNext(t.pos))

(***************************************************************************)
(* ParseModule, one action for each way round its loop.  An exception or   *)
(* an abort leaves the loop: nothing in the parser catches it.             *)
(***************************************************************************)
Finish(r) ==
  /\ pos' = r.pos
  /\ IF r.st = "ok"
     THEN /\ body' = Append(body, r.ast)
          /\ status' = "running"
          /\ err' = err
     ELSE /\ body' = body
          /\ status' = r.st
          /\ err' = r.ast
  /\ UNCHANGED <<source, tokens, result, programVars, runtimeVars>>

ModuleFuncDecl ==
  /\ status = "running"
  /\ Tok(pos).kind = "FUNC"
  /\ Finish(ParseFuncDecl(pos))

ModuleStmt ==
  /\ status = "running"
  /\ Tok(pos).kind \notin {"FUNC", "END"}
  /\ Finish(Invoke("ParseStmt", pos, <<>>))

\* Token's conversion to bool is false on the END token: the loop ends and
\* the Module is returned.
ModuleReturn ==
  /\ status = "running"
  /\ Tok(pos).kind = "END"
  /\ status' = "done"
  /\ UNCHANGED <<source, tokens, pos, body, err, result, programVars, runtimeVars>>

(***************************************************************************)
(* The token streams the parser is run on: every short stream over the     *)
(* whole alphabet, and every prefix of a program made of one declaration   *)
(* or statement, alone or followed by another one.  A prefix of a program  *)
(* is a program cut short: the malformed inputs.                           *)
(***************************************************************************)
MaxShort == 2
MaxParams == 2

Keywords ==
  {"FUNC", "LPAREN", "RPAREN", "COLON", "COMMA", "EQUAL", "LET", "LBRACE",
   "RBRACE", "RETURN", "WHILE", "IF", "ELSE", "SEMI", "MUL", "PLUS", "SUB",
   "EQUALS"}
AnyToken ==
  {T(k) : k \in Keywords} \cup {IdentTok("x"), StringTok("p"), IntTok(1)}

SeqsUpTo(S, n) == UNION {[1..k -> S] : k \in 0..n}
Prefixes(s) == {SubSeq(s, 1, n) : n \in 0..Len(s)}

RECURSIVE Concat(_)
Concat(ss) == IF ss = <<>> THEN <<>> ELSE Head(ss) \o Concat(Tail(ss))

SomeExprs ==
  { <<IdentTok("a")>>,
    <<IntTok(1)>>,
    <<IdentTok("a"), T("PLUS"), IntTok(2), T("MUL"), IdentTok("b")>>,
    <<IdentTok("f"), T("LPAREN"), IdentTok("a"), T("COMMA"), IntTok(1), T("RPAREN")>>,
    <<IdentTok("a"), T("EQUALS"), IdentTok("b")>> }

LetHead == <<T("LET"), IdentTok("v"), T("COLON"), IdentTok("int"), T("EQUAL")>>

\* The three terminated statement kinds, with and without their SEMI.
TerminatedStmts ==
  UNION { { e \o <<T("SEMI")>>,
            <<T("RETURN")>> \o e \o <<T("SEMI")>>,
            LetHead \o e \o <<T("SEMI")>> } : e \in SomeExprs }
UnterminatedStmts ==
  UNION { { e, <<T("RETURN")>> \o e, LetHead \o e } : e \in SomeExprs }

Inner ==
  { <<IdentTok("a"), T("SEMI")>>,
    <<T("RETURN"), IntTok(1), T("SEMI")>>,
    LetHead \o <<IntTok(1), T("SEMI")>>,
    <<T("LBRACE"), T("RBRACE")>> }
Cond == <<T("LPAREN"), IdentTok("c"), T("EQUALS"), IntTok(0), T("RPAREN")>>
CompoundStmts ==
  UNION { { <<T("WHILE")>> \o Cond \o s,
            <<T("IF")>> \o Cond \o s,
            <<T("IF")>> \o Cond \o s \o <<T("ELSE")>> \o s,
            <<T("LBRACE")>> \o s \o <<T("RBRACE")>>,
            <<T("LBRACE")>> \o s \o s \o <<T("RBRACE")>> } : s \in Inner }

Param == { <<IdentTok(n), T("COLON"), IdentTok("int")>> : n \in {"x", "y"} }
RECURSIVE JoinComma(_)
JoinComma(ps) ==
  IF ps = <<>> THEN <<>>
  ELSE IF Len(ps) = 1 THEN ps[1]
  ELSE ps[1] \o <<T("COMMA")>> \o JoinComma(Tail(ps))
ParamLists ==
  LET lists == { JoinComma(ps) : ps \in SeqsUpTo(Param, MaxParams) }
  IN lists \cup { l \o <<T("COMMA")>> : l \in lists \ {<<>>} }
DeclTails ==
  { <<T("EQUAL"), StringTok("print_int")>>,
    <<T("EQUAL"), IdentTok("print_int")>>,
    <<T("LBRACE"), T("RBRACE")>>,
    <<T("LBRACE"), T("RETURN"), IdentTok("x"), T("SEMI"), T("RBRACE")>>,
    <<T("SEMI")>> }
Decls ==
  { <<T("FUNC"), IdentTok("f"), T("LPAREN")>> \o ps
      \o <<T("RPAREN"), T("COLON"), IdentTok("int")>> \o tail :
    ps \in ParamLists, tail \in DeclTails }

PrintIntDecl ==
  <<T("FUNC"), IdentTok("print_int"), T("LPAREN"), IdentTok("x"), T("COLON"),
    IdentTok("int"), T("RPAREN"), T("COLON"), IdentTok("int"), T("EQUAL"),
    StringTok("print_int")>>

Items ==
  TerminatedStmts \cup UnterminatedStmts \cup CompoundStmts \cup Decls
    \cup {PrintIntDecl}
Followers ==
  { <<>>,
    <<IdentTok("z"), T("SEMI")>>,
    <<T("SEMI")>>,
    <<T("FUNC"), IdentTok("g"), T("LPAREN"), T("RPAREN"), T("COLON"),
      IdentTok("int"), T("EQUAL"), StringTok("read_int")>> }
Programs == { i \o f : i \in Items, f \in Followers }

Streams ==
  { s \o <<End>> :
    s \in SeqsUpTo(AnyToken, MaxShort) \cup UNION { Prefixes(g) : g \in Programs } }

Init ==
  /\ source = NoSource
  /\ tokens \in Streams
  /\ pos = 1
  /\ body = <<>>
  /\ status = "running"
  /\ err = None
  /\ result = NoResult
  /\ code = <<>>
  /\ pc = <<>>
  /\ rd = None
  /\ stack = <<>>
  /\ out = <<>>
  /\ inp = <<>>
  /\ called = ""

Next == ModuleFuncDecl \/ ModuleStmt \/ ModuleReturn

Spec == Init /\ [][Next]_vars

(***************************************************************************)
(* The expression parser called on its own.  The inputs are expressions    *)
(* given by their structure, and the token stream is what the lexer makes  *)
(* of them:                                                                *)
(*   - a chain  t1 op1 t2 ... opn tn+1  of terms and binary operators;     *)
(*   - a callee followed by argument lists.                                *)
(* After the expression comes what may follow one, then the end.           *)
(***************************************************************************)
MaxOps == 3
MaxCalls == 2
MaxArgs == 2

Names == <<"a", "b", "c", "d", "e", "g">>
BinaryOps == {"MUL", "PLUS", "SUB", "EQUALS"}
TermsAt(i) == {IdentTok(Names[i]), IntTok(i)}
Tails == {<<>>, <<T("SEMI")>>}

RECURSIVE TermSeqs(_)
TermSeqs(n) ==
  IF n = 0 THEN {<<>>}
  ELSE { Append(ts, t) : ts \in TermSeqs(n - 1), t \in TermsAt(n) }

Chains ==
  UNION { { [kind |-> "chain", terms |-> ts, ops |-> os, tail |-> tl] :
            ts \in TermSeqs(n + 1), os \in [1..n -> BinaryOps], tl \in Tails } :
          n \in 0..MaxOps }

\* An argument, as tokens and as the tree it stands for.
ArgCases ==
  { [toks |-> <<IdentTok("x")>>, tree |-> RefExpr("x")],
    [toks |-> <<IdentTok("y")>>, tree |-> RefExpr("y")],
    [toks |-> <<IdentTok("h"), T("LPAREN"), IntTok(1), T("PLUS"), IdentTok("z"),
                T("RPAREN")>>,
     tree |-> CallExpr(RefExpr("h"), <<BinaryExpr("ADD", IntExpr(1), RefExpr("z"))>>)] }

CallChains ==
  { [kind |-> "calls", callee |-> c, lists |-> ls, tail |-> tl] :
    c \in {IdentTok("f")},
    ls \in SeqsUpTo(SeqsUpTo(ArgCases, MaxArgs), MaxCalls),
    tl \in Tails }

RECURSIVE Interleave(_, _)
Interleave(ts, os) ==
  IF os = <<>> THEN <<ts[1]>>
  ELSE <<ts[1], T(os[1])>> \o Interleave(Tail(ts), Tail(os))

ArgList(l) ==
  <<T("LPAREN")>> \o JoinComma([i \in 1..Len(l) |-> l[i].toks]) \o <<T("RPAREN")>>

\* The token stream of an expression.
Lex(src) ==
  ( IF src.kind = "chain" THEN Interleave(src.terms, src.ops)
    ELSE <<src.callee>> \o Concat([i \in 1..Len(src.lists) |-> ArgList(src.lists[i])]) )
  \o src.tail \o <<End>>

InitExpr ==
  /\ source \in Chains \cup CallChains
  /\ tokens = Lex(source)
  /\ pos = 1
  /\ body = <<>>
  /\ status = "running"
  /\ err = None
  /\ result = NoResult
  /\ code = <<>>
  /\ pc = <<>>
  /\ rd = None
  /\ stack = <<>>
  /\ out = <<>>
  /\ inp = <<>>
  /\ called = ""

Returned(entry, r) ==
  /\ result' = [entry |-> entry, r |-> r]
  /\ pos' = r.pos
  /\ status' = IF r.st = "ok" THEN "done" ELSE r.st
  /\ UNCHANGED <<source, tokens, body, err, programVars, runtimeVars>>

RunParseExpr ==
  /\ status = "running"
  /\ Returned("ParseExpr", ParseExpr(pos))

RunParseAddSubExpr ==
  /\ status = "running"
  /\ Returned("ParseAddSubExpr", ParseAddSubExpr(pos))

RunParseCallExpr ==
  /\ status = "running"
  /\ Returned("ParseCallExpr", ParseCallExpr(pos))

NextExpr == RunParseExpr \/ RunParseAddSubExpr \/ RunParseCallExpr

SpecExpr == InitExpr /\ [][NextExpr]_vars

(***************************************************************************)
(* What the grammar says an expression's tree is, written without the      *)
(* parser: the root of a chain is its last operator of the lowest          *)
(* precedence.                                                             *)
(***************************************************************************)
TermTree(tk) == IF tk.kind = "IDENT" THEN RefExpr(tk.val) ELSE IntExpr(tk.val)

KindOf(op) ==
  CASE op = "MUL" -> "MUL"
    [] op = "PLUS" -> "ADD"
    [] op = "SUB" -> "SUB"
    [] op = "EQUALS" -> "EQUALS"

Prec(op) ==
  CASE op = "EQUALS" -> 1
    [] op \in {"PLUS", "SUB"} -> 2
    [] op = "MUL" -> 3

RECURSIVE GrammarTree(_, _)
GrammarTree(ts, os) ==
  IF os = <<>> THEN TermTree(ts[1])
  ELSE LET i == CHOOSE i \in 1..Len(os) :
                  /\ \A j \in 1..Len(os) : Prec(os[j]) >= Prec(os[i])
                  /\ \A j \in (i + 1)..Len(os) : Prec(os[j]) > Prec(os[i])
       IN BinaryExpr(KindOf(os[i]),
                     GrammarTree(SubSeq(ts, 1, i), SubSeq(os, 1, i - 1)),
                     GrammarTree(SubSeq(ts, i + 1, Len(ts)), SubSeq(os, i + 1, Len(os))))

RECURSIVE LeftFold(_, _)
LeftFold(ts, os) ==
  IF os = <<>> THEN TermTree(ts[1])
  ELSE BinaryExpr(KindOf(os[Len(os)]),
                  LeftFold(SubSeq(ts, 1, Len(ts) - 1), SubSeq(os, 1, Len(os) - 1)),
                  TermTree(ts[Len(ts)]))

RECURSIVE CallTree(_, _)
CallTree(callee, lists) ==
  IF lists = <<>> THEN TermTree(callee)
  ELSE LET l == lists[Len(lists)] IN
       CallExpr(CallTree(callee, SubSeq(lists, 1, Len(lists) - 1)),
                [i \in 1..Len(l) |-> l[i].tree])

\* The position of the token that follows the expression of the source.
AfterExpr == Len(tokens) - Len(source.tail)

(***************************************************************************)
(* C1.  ParseExpr on a chain of terms and the operators *, +, -, ==        *)
(* returns the tree of the precedence ladder: * groups tighter than + and  *)
(* -, which group tighter than ==; the lexer is left on the token after    *)
(* the chain.  a + b * c is ADD(a, MUL(b, c)); a == b + c is               *)
(* EQUALS(a, ADD(b, c)).                                                   *)
(***************************************************************************)
C1_Precedence ==
  (result.entry = "ParseExpr" /\ source.kind = "chain") =>
    /\ result.r.st = "ok"
    /\ result.r.pos = AfterExpr
    /\ result.r.ast = GrammarTree(source.terms, source.ops)
    /\ (source.terms = <<IdentTok("a"), IdentTok("b"), IdentTok("c")>>
        /\ source.ops = <<"PLUS", "MUL">>) =>
         result.r.ast = BinaryExpr("ADD", RefExpr("a"),
                                   BinaryExpr("MUL", RefExpr("b"), RefExpr("c")))
    /\ (source.terms = <<IdentTok("a"), IdentTok("b"), IdentTok("c")>>
        /\ source.ops = <<"EQUALS", "PLUS">>) =>
         result.r.ast = BinaryExpr("EQUALS", RefExpr("a"),
                                   BinaryExpr("ADD", RefExpr("b"), RefExpr("c")))

C1_Witness ==
  /\ result.entry = "ParseExpr"
  /\ source.kind = "chain"
  /\ source.ops = <<"EQUALS", "PLUS", "MUL">>
  /\ result.r.st = "ok"
  /\ result.r.ast.kind = "EQUALS"
  /\ result.r.ast.rhs.rhs.kind = "MUL"

(***************************************************************************)
(* C2.  ParseAddSubExpr on a chain whose operators are + and - returns the *)
(* left-associative tree ((t1 op1 t2) op2 t3)..., each node ADD where its  *)
(* token was PLUS and SUB where it was SUB.  a - b - c is                  *)
(* SUB(SUB(a, b), c).                                                      *)
(***************************************************************************)
C2_LeftAssociative ==
  ( /\ result.entry = "ParseAddSubExpr"
    /\ source.kind = "chain"
    /\ \A i \in 1..Len(source.ops) : source.ops[i] \in {"PLUS", "SUB"} ) =>
    /\ result.r.st = "ok"
    /\ result.r.pos = AfterExpr
    /\ result.r.ast = LeftFold(source.terms, source.ops)
    /\ (source.terms = <<IdentTok("a"), IdentTok("b"), IdentTok("c")>>
        /\ source.ops = <<"SUB", "SUB">>) =>
         result.r.ast = BinaryExpr("SUB", BinaryExpr("SUB", RefExpr("a"), RefExpr("b")),
                                   RefExpr("c"))

C2_Witness ==
  /\ result.entry = "ParseAddSubExpr"
  /\ source.kind = "chain"
  /\ source.ops = <<"SUB", "PLUS", "SUB">>
  /\ result.r.st = "ok"
  /\ result.r.ast.kind = "SUB"
  /\ result.r.ast.lhs.kind = "ADD"
  /\ result.r.ast.lhs.lhs.kind = "SUB"

(***************************************************************************)
(* C3.  ParseCallExpr on a term followed by k argument lists returns k     *)
(* nested CallExpr nodes, the callee of each call being the call before    *)
(* it, each with its arguments in source order (the empty list too), and   *)
(* leaves the lexer on the token after the last RPAREN.  f(x)(y) is        *)
(* CallExpr(CallExpr(RefExpr(f), [x]), [y]).                               *)
(***************************************************************************)
C3_CallChain ==
  (result.entry = "ParseCallExpr" /\ source.kind = "calls") =>
    /\ result.r.st = "ok"
    /\ result.r.pos = AfterExpr
    /\ source.lists # <<>> => Tok(result.r.pos - 1).kind = "RPAREN"
    /\ result.r.ast = CallTree(source.callee, source.lists)
    /\ (source.lists = << <<[toks |-> <<IdentTok("x")>>, tree |-> RefExpr("x")]>>,
                          <<[toks |-> <<IdentTok("y")>>, tree |-> RefExpr("y")]>> >>) =>
         result.r.ast = CallExpr(CallExpr(RefExpr("f"), <<RefExpr("x")>>),
                                 <<RefExpr("y")>>)

C3_Witness ==
  /\ result.entry = "ParseCallExpr"
  /\ source.kind = "calls"
  /\ Len(source.lists) = 2
  /\ Len(source.lists[1]) = 2
  /\ source.lists[2] = <<>>
  /\ result.r.st = "ok"
  /\ result.r.ast.args = <<>>
  /\ Len(result.r.ast.callee.args) = 2

(***************************************************************************)
(* Reading the token stream without the parser.                            *)
(***************************************************************************)
KindAt(i) == IF i \in 1..Len(tokens) THEN tokens[i].kind ELSE "END"
ValAt(i) == IF i \in 1..Len(tokens) THEN tokens[i].val ELSE ""

\* The RPAREN of a declaration header with n parameters that starts at p.
RParenOf(p, n) == IF n = 0 THEN p + 3 ELSE p + 2 + 4 * n

\* func name(p1: t1, ..., pn: tn): ret  starts at p.
IsHeader(p, n) ==
  /\ KindAt(p) = "FUNC"
  /\ KindAt(p + 1) = "IDENT"
  /\ KindAt(p + 2) = "LPAREN"
  /\ \A i \in 1..n :
       /\ KindAt(p + 4 * i - 1) = "IDENT"
       /\ KindAt(p + 4 * i) = "COLON"
       /\ KindAt(p + 4 * i + 1) = "IDENT"
       /\ i < n => KindAt(p + 4 * i + 2) = "COMMA"
  /\ KindAt(RParenOf(p, n)) = "RPAREN"
  /\ KindAt(RParenOf(p, n) + 1) = "COLON"
  /\ KindAt(RParenOf(p, n) + 2) = "IDENT"
HeaderParams(p, n) == [i \in 1..n |-> <<ValAt(p + 4 * i - 1), ValAt(p + 4 * i + 1)>>]

\* ParseModule has gone round its loop at least once.
Acted == body # <<>> \/ status # "running"

(***************************************************************************)
(* C4.  In ParseModule, a declaration  func name(p1: t1, ..., pn: tn): ret *)
(* whose return type is followed by EQUAL and a STRING appends exactly one *)
(* ProtoDecl with the name, the parameters in order, the return type and   *)
(* the string, parses no body and leaves the lexer on the token after the  *)
(* string; followed by anything but EQUAL, the block that follows is       *)
(* parsed and exactly one FuncDecl with it as body is appended (nothing is *)
(* appended when the block, or the binding, is malformed).                 *)
(* func print_int(x: int): int = "print_int"  gives a ProtoDecl with no    *)
(* body and the primitive name print_int.                                  *)
(***************************************************************************)
C4_Step ==
  \A n \in 0..(MaxParams + 1) :
    (status = "running" /\ IsHeader(pos, n)) =>
      LET r == RParenOf(pos, n)
          q == r + 3
          name == ValAt(pos + 1)
          type == ValAt(r + 2)
          block == Invoke("ParseBlockStmt", q, <<>>)
      IN CASE KindAt(q) = "EQUAL" /\ KindAt(q + 1) = "STRING" ->
                /\ status' = "running"
                /\ body' = Append(body, ProtoDecl(name, HeaderParams(pos, n), type,
                                                  ValAt(q + 1)))
                /\ pos' = q + 2
           [] KindAt(q) = "EQUAL" /\ KindAt(q + 1) # "STRING" ->
                /\ status' # "running"
                /\ body' = body
           [] KindAt(q) # "EQUAL" /\ block.st = "ok" ->
                /\ status' = "running"
                /\ body' = Append(body, FuncDecl(name, HeaderParams(pos, n), type,
                                                 block.ast))
                /\ pos' = block.pos
           [] KindAt(q) # "EQUAL" /\ block.st # "ok" ->
                /\ status' = block.st
                /\ body' = body

C4_PrintInt ==
  (tokens = PrintIntDecl \o <<End>> /\ status = "done") =>
    /\ body = <<ProtoDecl("print_int", << <<"x", "int">> >>, "int", "print_int")>>
    /\ "body" \notin DOMAIN body[1]

\* C4: after a function header, EQUAL STRING makes ParseModule append one
\* ProtoDecl bound to the string, and a block makes it append one FuncDecl
\* with that body; the print_int declaration gives the ProtoDecl of the spec.
C4_ProtoOrFunc == [][C4_Step]_vars /\ []C4_PrintInt

C4_Witness ==
  /\ Len(body) = 2
  /\ body[1].node = "FuncDecl"
  /\ Len(body[1].args) = 2
  /\ Len(body[1].body.body) = 1
  /\ body[2].node = "ProtoDecl"
  /\ status = "done"

(***************************************************************************)
(* C5.  Parsing  func f(  (FUNC, IDENT, LPAREN, end of stream) ends in a   *)
(* ParserError at the end-of-stream token that expects RPAREN or IDENT,    *)
(* and in no other failure.                                                *)
(***************************************************************************)
C5_SyntaxError ==
  (tokens = <<T("FUNC"), IdentTok("f"), T("LPAREN"), End>> /\ Acted) =>
    /\ status = "syntax"
    /\ err.loc = 4
    /\ err.expected \in {"RPAREN", "IDENT"}

(***************************************************************************)
(* C6.  With LET current and IDENT(name), COLON, IDENT(type), EQUAL and a  *)
(* well-formed expression after it, ParseLetStmt returns the LetStmt that  *)
(* binds the parsed name to the parsed type, with the parsed expression as *)
(* initializer.                                                            *)
(***************************************************************************)
LetShape(p) ==
  /\ KindAt(p) = "LET"
  /\ KindAt(p + 1) = "IDENT"
  /\ KindAt(p + 2) = "COLON"
  /\ KindAt(p + 3) = "IDENT"
  /\ KindAt(p + 4) = "EQUAL"
  /\ ParseExpr(p + 5).st = "ok"

\* C6: on `let name : type = init`, ParseLetStmt returns a LetStmt that binds
\* the parsed name and type and holds the parsed initialiser.
C6_LetBinding ==
  \A p \in 1..Len(tokens) :
    (LetShape(p) /\ Acted) =>
      LET r == Invoke("ParseLetStmt", p, <<>>) IN
      /\ r.st = "ok"
      /\ r.ast = LetStmt(<<ValAt(p + 1), ValAt(p + 3)>>, ParseExpr(p + 5).ast)

(***************************************************************************)
(* C7.  For an expression statement, a return statement and a let          *)
(* statement, ParseStmt requires the SEMI right after the statement and    *)
(* consumes it: when it returns, the token after the SEMI is current; a    *)
(* missing SEMI is a syntax error at the token found in its place.         *)
(***************************************************************************)
\* Where the expression of the terminated statement at p starts; 0 when the
\* statement at p is of another kind.
ExprStart(p) ==
  CASE KindAt(p) = "RETURN" -> p + 1
    [] KindAt(p) = "LET" -> IF LetShape(p) THEN p + 5 ELSE 0
    [] KindAt(p) \in {"WHILE", "IF", "LBRACE", "FUNC", "END"} -> 0
    [] OTHER -> p

Terminated(p) ==
  LET e == ParseExpr(ExprStart(p))
      r == Invoke("ParseStmt", p, <<>>)
  IN (ExprStart(p) # 0 /\ e.st = "ok") =>
       IF KindAt(e.pos) = "SEMI"
       THEN r.st = "ok" /\ r.pos = e.pos + 1
       ELSE r.st = "syntax" /\ r.ast = [loc |-> e.pos, expected |-> "SEMI"]

\* C7: an expression, return or let statement returns with the SEMI after it
\* consumed, and fails with a syntax error expecting SEMI when it is missing.
C7_SemiConsumed ==
  \A p \in 1..Len(tokens) : Acted => Terminated(p)

\* The same of the expression and return statements alone.
ExprAndReturnTerminated ==
  \A p \in 1..Len(tokens) : (Acted /\ KindAt(p) # "LET") => Terminated(p)

(***************************************************************************)
(* C10.  ParseModule terminates on every finite token stream: each way     *)
(* round its loop consumes a token or stops, and so does each way round    *)
(* the block, parameter-list, argument-list and operator loops; it ends    *)
(* with the Module returned and the end-of-stream token current, or at the *)
(* first failure (a ParserError, or the abort of a failed precondition),   *)
(* after which nothing more is parsed.                                     *)
(***************************************************************************)
C10_Step ==
  /\ status = "running" =>
       /\ status' = "running" => (pos' > pos /\ Len(body') = Len(body) + 1)
       /\ status' = "done" => (KindAt(pos') = "END" /\ pos' = pos /\ body' = body)
       /\ status' \in {"syntax", "trap"} => body' = body
       /\ (KindAt(pos) \notin {"FUNC", "END"}
           /\ Invoke("ParseStmt", pos, <<>>).st # "ok") =>
            status' = Invoke("ParseStmt", pos, <<>>).st
       /\ (KindAt(pos) = "FUNC" /\ ParseFuncDecl(pos).st # "ok") =>
            status' = ParseFuncDecl(pos).st
  /\ status # "running" => UNCHANGED vars

\* One way round each inner loop, from every position of the stream.
C10_LoopsConsume ==
  \A p \in 1..Len(tokens) :
    LET stmt == Invoke("ParseStmt", p, <<>>)
        expr == ParseExpr(p)
        args == Invoke("ArgLoop", p, <<>>)
        params == ParamLoop(p, <<>>)
        mul == Invoke("MulLoop", p, None)
        add == Invoke("AddSubLoop", p, None)
        eq == Invoke("EqualityLoop", p, None)
        call == Invoke("CallLoop", p, None)
    IN /\ (KindAt(p) # "RBRACE" /\ stmt.st = "ok") => stmt.pos > p
       /\ expr.st = "ok" => expr.pos > p
       /\ (KindAt(p) \in {"LPAREN", "COMMA"} /\ args.st = "ok") => args.pos > p
       /\ (KindAt(p) \in {"LPAREN", "COMMA"} /\ params.st = "ok") => params.pos > p
       /\ (KindAt(p) = "MUL" /\ mul.st = "ok") => mul.pos > p
       /\ (KindAt(p) \in {"PLUS", "SUB"} /\ add.st = "ok") => add.pos > p
       /\ (KindAt(p) = "EQUALS" /\ eq.st = "ok") => eq.pos > p
       /\ (KindAt(p) = "LPAREN" /\ call.st = "ok") => call.pos > p

\* The lexer's position only grows and never leaves the stream, so the loop
\* of ParseModule goes round at most Len(tokens) times.
\* C10: ParseModule stops on every token stream, at the end of the stream or
\* at the first failure, and never resumes after a failure.
C10_Terminates ==
  /\ [][C10_Step]_vars
  /\ []C10_LoopsConsume
  /\ [](pos \in 1..Len(tokens))
  /\ [](status = "done" => KindAt(pos) = "END")

C10_Witness ==
  /\ status = "done"
  /\ Len(body) = 2
  /\ body[1].node = "WhileStmt"
  /\ pos = Len(tokens)

(***************************************************************************)
(* Program::Read.  size_t is SizeBits wide here (64 in the build), so that *)
(* its arithmetic wraps within the model's reach; a value of type T is the *)
(* sequence of its sizeof(T) bytes.  The cursors belong to the readers;    *)
(* a reader moves its cursor by reading and by jumping.                    *)
(***************************************************************************)
SizeBits == 4
MaxCode == 9
NumCursors == 2

SizeMod == 2 ^ SizeBits
Cursors == 1..NumCursors
\* sizeof(Opcode) and sizeof(int64_t)
Widths == {1, 8}
Codes == { [i \in 1..n |-> (37 * i) % 256] : n \in 0..MaxCode }

InitRead ==
  /\ source = NoSource
  /\ tokens = <<End>>
  /\ pos = 1
  /\ body = <<>>
  /\ status = "running"
  /\ err = None
  /\ result = NoResult
  /\ code \in Codes
  /\ pc = [c \in Cursors |-> 0]
  /\ rd = None
  /\ stack = <<>>
  /\ out = <<>>
  /\ inp = <<>>
  /\ called = ""

\* The bytes memcpy copies when they lie in the buffer.
BytesAt(at, w) == SubSeq(code, at + 1, at + w)

\* T Program::Read<T>(size_t &pc), with w = sizeof(T).  The assertion is
\* evaluated in size_t.  When the sum has wrapped and the assertion has passed
\* all the same, memcpy reads outside the buffer: the value is whatever lies
\* there, or the process dies of the access.
Read(c, w) ==
  /\ status = "running"
  /\ IF (pc[c] + w) % SizeMod <= Len(code)
     THEN \/ /\ pc[c] + w <= Len(code)
             /\ rd' = [op |-> "read", cursor |-> c, width |-> w, value |-> BytesAt(pc[c], w)]
             /\ pc' = [pc EXCEPT ![c] = (pc[c] + w) % SizeMod]
             /\ status' = "running"
          \/ /\ pc[c] + w > Len(code)
             /\ \E b \in {0, 255} :
                  rd' = [op |-> "read", cursor |-> c, width |-> w,
                         value |-> [i \in 1..w |-> b]]
             /\ pc' = [pc EXCEPT ![c] = (pc[c] + w) % SizeMod]
             /\ status' = "running"
          \/ /\ pc[c] + w > Len(code)
             /\ rd' = [op |-> "read", cursor |-> c, width |-> w, value |-> <<>>]
             /\ pc' = pc
             /\ status' = "crash"
     ELSE /\ rd' = [op |-> "read", cursor |-> c, width |-> w, value |-> <<>>]
          /\ pc' = pc
          /\ status' = "trap"
  /\ UNCHANGED <<code, parserVarsButStatus, runtimeVars>>

ReadAny == \E c \in Cursors, w \in Widths : Read(c, w)

\* The interpreter's JUMP: the cursor becomes the immediate target.
Jump ==
  /\ status = "running"
  /\ \E c \in Cursors, target \in 0..(SizeMod - 1) :
       /\ pc' = [pc EXCEPT ![c] = target]
       /\ rd' = [op |-> "jump", cursor |-> c, width |-> 0, value |-> <<>>]
  /\ UNCHANGED <<code, status, parserVarsButStatus, runtimeVars>>

NextRead == ReadAny \/ Jump

SpecRead == InitRead /\ [][NextRead]_vars

(***************************************************************************)
(* C8.  Program::Read<T>(pc), w = sizeof(T): when pc + w <= the length of  *)
(* the buffer it returns the w bytes at pc .. pc+w-1 and pc becomes        *)
(* pc + w; when pc + w > the length the read fails, returns no value and   *)
(* leaves pc alone.  The buffer never changes, and a read moves no other   *)
(* cursor.                                                                 *)
(***************************************************************************)
C8_ReadStep ==
  rd'.op = "read" =>
    LET c == rd'.cursor
        w == rd'.width
    IN /\ IF pc[c] + w <= Len(code)
          THEN /\ status' = "running"
               /\ rd'.value = BytesAt(pc[c], w)
               /\ pc'[c] = pc[c] + w
          ELSE /\ status' # "running"
               /\ rd'.value = <<>>
               /\ pc'[c] = pc[c]
       /\ code' = code
       /\ \A d \in Cursors \ {c} : pc'[d] = pc[d]

\* C8: Read of w bytes at cursor pc succeeds exactly when pc + w <= size, then
\* returns the bytes at pc and advances that cursor by w; otherwise it fails and
\* the cursor stays; the buffer and the other cursors never change.
C8_BoundsChecked == [][C8_ReadStep]_vars

\* The same with the cursor where the sum does not wrap.
ReadCheckedBelowWrap ==
  [][pc[rd'.cursor] + rd'.width < SizeMod => C8_ReadStep]_vars

(***************************************************************************)
(* The host primitives.  Each is handed the interpreter, of which it uses  *)
(* the operand stack; standard input is the sequence of the integers still *)
(* to be read, standard output the sequence of what was written.           *)
(***************************************************************************)
MaxStack == 3
MaxInput == 2

Values == {-1, 0, 7}

InitRuntime ==
  /\ source = NoSource
  /\ tokens = <<End>>
  /\ pos = 1
  /\ body = <<>>
  /\ status = "running"
  /\ err = None
  /\ result = NoResult
  /\ code = <<>>
  /\ pc = <<>>
  /\ rd = None
  /\ stack \in SeqsUpTo(Values, 1)
  /\ out = <<>>
  /\ inp \in SeqsUpTo(Values, MaxInput)
  /\ called = ""

\* Interp::Push and Interp::PeekInt.
Push(stk, v) == Append(stk, v)
PeekInt(stk) == stk[Len(stk)]

\* PrintInt with the operand popped off the stack before it is pushed back.
PrintInt_pops ==
  IF stack = <<>>
  THEN status' = "trap" /\ UNCHANGED <<stack, out, inp>>
  ELSE LET v == PeekInt(stack) IN
       /\ out' = Append(out, ToString(v))
       /\ stack' = SubSeq(stack, 1, Len(stack) - 1)
       /\ UNCHANGED <<status, inp>>

\* There is no top to peek at on an empty stack: the run is aborted.
PrintInt ==
  IF stack = <<>>
  THEN status' = "trap" /\ UNCHANGED <<stack, out, inp>>
  ELSE LET v == PeekInt(stack) IN
       /\ out' = Append(out, ToString(v))
       /\ stack' = Push(stack, v)
       /\ UNCHANGED <<status, inp>>

PrintNewline ==
  /\ out' = Append(out, "\n")
  /\ stack' = Push(stack, 0)
  /\ UNCHANGED <<status, inp>>

\* std::cin >> val; when there is nothing to read, val is 0 or was never
\* written, and is pushed all the same.
ReadInt ==
  /\ IF inp # <<>>
     THEN stack' = Push(stack, Head(inp)) /\ inp' = Tail(inp)
     ELSE (\E val \in Values : stack' = Push(stack, val)) /\ inp' = inp
  /\ UNCHANGED <<status, out>>

kRuntimeFns ==
  [print_int |-> "PrintInt", read_int |-> "ReadInt", print_newline |-> "PrintNewline"]

\* The interpreter calls the primitive bound to the name.
CallRuntime(name) ==
  /\ status = "running"
  /\ Len(stack) < MaxStack
  /\ name \in DOMAIN kRuntimeFns
  /\ called' = name
  /\ CASE kRuntimeFns[name] = "PrintInt" -> PrintInt
       [] kRuntimeFns[name] = "ReadInt" -> ReadInt
       [] kRuntimeFns[name] = "PrintNewline" -> PrintNewline
  /\ UNCHANGED <<parserVarsButStatus, programVars>>

CallPrintInt == CallRuntime("print_int")
CallReadInt == CallRuntime("read_int")
CallPrintNewline == CallRuntime("print_newline")

NextRuntime == CallPrintInt \/ CallReadInt \/ CallPrintNewline

SpecRuntime == InitRuntime /\ [][NextRuntime]_vars

(***************************************************************************)
(* C9.  Each primitive of the runtime table, called on a stack on which it *)
(* is defined, pushes exactly one value and removes none: the stack is one *)
(* deeper and unchanged below the new top.  print_int pushes the value it  *)
(* read from the top without popping it, print_newline pushes 0, read_int  *)
(* pushes the integer it read.  The table holds exactly print_int,         *)
(* read_int and print_newline.                                             *)
(***************************************************************************)
C9_CallStep ==
  /\ status' = "running" =>
       /\ Len(stack') = Len(stack) + 1
       /\ SubSeq(stack', 1, Len(stack)) = stack
       /\ called' = "print_int" =>
            (stack # <<>> /\ stack'[Len(stack')] = stack[Len(stack)])
       /\ called' = "print_newline" => stack'[Len(stack')] = 0
       /\ (called' = "read_int" /\ inp # <<>>) =>
            (stack'[Len(stack')] = Head(inp) /\ inp' = Tail(inp))
  /\ status' # "running" => (called' = "print_int" /\ stack = <<>> /\ stack' = stack)

\* C9: each runtime primitive leaves the operand stack exactly one deeper,
\* with what was below unchanged.
C9_PushesOne ==
  /\ [][C9_CallStep]_vars
  /\ [](DOMAIN kRuntimeFns = {"print_int", "read_int", "print_newline"})

C9_Witness ==
  /\ called = "print_int"
  /\ Len(stack) = 3
  /\ stack[3] = stack[2]
  /\ stack[2] = 7
  /\ Len(out) = 2
  /\ inp = <<>>

====
